---- MODULE Spec2Model ----
(***************************************************************************)
(* Model of the Mi Band 2 authentication session (miband2/authsession.py). *)
(*                                                                         *)
(* Two threads touch a Session: the caller's thread runs start(), the      *)
(* GLib main-loop thread runs Char.cb -> Session.handle for every          *)
(* PropertiesChanged signal that carries a Value.  The module-level        *)
(* variables are the Session's fields, the state of the auth               *)
(* characteristic, and the position of each thread.  Byte strings are      *)
(* sequences of numbers 0..255.                                            *)
(*                                                                         *)
(* The characteristic is the environment: a write (Char.send) may raise,   *)
(* start_notify and stop_notify do not, and while the signal is connected  *)
(* a value may be notified at any time, as the answer to a message or      *)
(* unrequested.                                                            *)
(***************************************************************************)
EXTENDS Integers, Sequences, FiniteSets, TLC

VARIABLES
    key,            \* Session.key
    reset,          \* Session.reset
    next_handler,   \* Session.next_handler
    notifying,      \* auth_char: signal connected and StartNotify in force
    stop_calls,     \* number of auth_char.stop_notify() calls
    sent,           \* values written to the auth characteristic, in order
    callbacks,      \* arguments the callback has been invoked with, in order
    spc,            \* position of the caller's thread in start()
    start_exc,      \* exception start() raised to its caller, or NoExc
    hpc,            \* position of the main-loop thread in handle()
    hcode,          \* handle(): local `code`
    hmsg,           \* handle(): local `msg` (the body after parse_msg)
    hhandler,       \* handle(): the handler fetched from next_handler at line 59
    hexc,           \* handle(): exception raised inside the try block, or NoExc
    hsent,          \* Len(sent) when the current/last handle() was entered
    delivered,      \* every notification value handle() was invoked with
    answered,       \* number of delivered notifications that answered a sent message
    stray,          \* number of delivered notifications that answered nothing
    cpc,            \* position of the caller's thread in a stop() that cancels the run
    loop_initializer, \* module global loop_initializer: the function it is bound to
    loop_threads,   \* number of main-loop threads _loop_init has started
    apc,            \* auth(): position of each calling thread
    afn,            \* auth(): the function each caller fetched from loop_initializer
    a_handler,      \* next_handler of the Session each auth() call built
    a_notifying,    \* whether that Session's Char has its signal connected
    a_callbacks,    \* what each call's callback has received
    wire,           \* values written to the device's auth characteristic, with the writer
    wire_answered,  \* number of values on the wire the device has answered
    a_cur,          \* the notification the main loop is dispatching
    a_todo,         \* the Chars the main loop has still to hand it to
    a_handled,      \* pairs << session, writer of the message answered >> handled so far
    hb_pc,          \* request_heartbeat(): position of the coroutine
    hb_subscribed,  \* heart-rate characteristic: notifications on
    hb_writes,      \* values written to the heartbeat-control characteristic
    hb_stop_calls,  \* number of device.stop_notify() calls on the heart-rate characteristic
    hb_tasks,       \* one task per notification: the coroutine cb(char, data)
    hb_reported,    \* what the caller's callback has received
    k_pc,           \* codec call in progress and its position
    dt_in,          \* _pack_datetime: the datetime passed in
    dt_order,       \* byte order of the build ('h' is packed in native order)
    dt_frame,       \* the bytes _pack_datetime returned
    dt_out,         \* the datetime _unpack_datetime returned
    days_in,        \* _days_to_bitmask: the days passed in
    days_rest,      \* _days_to_bitmask: the days the loop has still to visit
    mask            \* _days_to_bitmask: local `mask`

vars == << key, reset, next_handler, notifying, stop_calls, sent, callbacks,
           spc, start_exc, hpc, hcode, hmsg, hhandler, hexc, hsent,
           delivered, answered, stray, cpc,
           loop_initializer, loop_threads, apc, afn, a_handler, a_notifying,
           a_callbacks, wire, wire_answered, a_cur, a_todo, a_handled,
           hb_pc, hb_subscribed, hb_writes, hb_stop_calls, hb_tasks,
           hb_reported,
           k_pc, dt_in, dt_order, dt_frame, dt_out, days_in, days_rest, mask >>

(***************************************************************************)
(* Bounds of the model.                                                    *)
(***************************************************************************)
\* notifications the device emits without a message to answer
MaxStray == 1
\* threads that call auth() for the same device
MaxCallers == 2
\* heart-rate notifications the band delivers for one request_heartbeat
MaxHbNotifications == 2
\* length of the list of days passed to _days_to_bitmask
MaxDays == 3

(***************************************************************************)
(* Program constants.                                                      *)
(***************************************************************************)
\* parse_msg: the code is msg[:3]
CodeLen == 3
\* AES block size required by pyaes' ECB encrypt
BlockLen == 16

\* class AuthReply
KEY_ACCEPTED      == << 16, 1, 1 >>
RAND_MSG_RECEIVED == << 16, 2, 1 >>
AUTH_OK           == << 16, 3, 1 >>
KEY_MISMATCH      == << 16, 3, 4 >>
KEY_ABORTED       == << 16, 1, 2 >>
AuthReply == { KEY_ACCEPTED, RAND_MSG_RECEIVED, AUTH_OK, KEY_MISMATCH, KEY_ABORTED }

\* key sizes pyaes.AES accepts
AesKeySizes == { 16, 24, 32 }

None  == "None"
NoExc == "NoExc"
Handlers == { "handle_init_reply", "handle_secret_reply", "handle_done" }

(***************************************************************************)
(* Inputs: the keys a Session is built with and the notification values    *)
(* the device may deliver.                                                 *)
(***************************************************************************)
KeyA     == [ i \in 1..BlockLen |-> 47 + i ]
KeyB     == [ i \in 1..BlockLen |-> 255 - i ]
KeyShort == << 1, 2, 3 >>
Keys     == { KeyA, KeyB, KeyShort }

ChalA     == [ i \in 1..BlockLen |-> (7 * i) % 256 ]
ChalB     == [ i \in 1..BlockLen |-> 250 ]
ChalShort == << 9, 9 >>
UNKNOWN_CODE == << 16, 2, 2 >>

Notifications ==
    { KEY_ACCEPTED, AUTH_OK, KEY_MISMATCH, KEY_ABORTED,
      RAND_MSG_RECEIVED \o ChalA, RAND_MSG_RECEIVED \o ChalB,
      RAND_MSG_RECEIVED \o ChalShort, RAND_MSG_RECEIVED,
      UNKNOWN_CODE, UNKNOWN_CODE \o ChalA,
      << 16, 1 >>, << >> }

(***************************************************************************)
(* Pure helpers.                                                           *)
(***************************************************************************)
Min(a, b) == IF a < b THEN a ELSE b

\* parse_msg: bytes(msg[:3]), msg[3:]
ParseCode(m) == SubSeq(m, 1, Min(CodeLen, Len(m)))
ParseBody(m) == SubSeq(m, CodeLen + 1, Len(m))

\* pyaes.AESModeOfOperationECB(key).encrypt(block): raises ValueError unless the
\* key has an AES key size and the block is exactly 16 bytes.  The cipher itself
\* is abstracted by a keyed, length-preserving byte permutation.
CanEncrypt(k, block) == Len(k) \in AesKeySizes /\ Len(block) = BlockLen
Encrypt(k, block) ==
    [ i \in 1..Len(block) |-> (block[i] + k[((i + 2) % Len(k)) + 1] + i) % 256 ]

\* _req_secret: [2,0]
SecretRequest == << 2, 0 >>

\* _send_key: [1,0] + list(self.key)
KeyMessage(k) == << 1, 0 >> \o k

\* a slip in _send_enc_msg: the challenge goes back as it came
EncMessagePlain(k, b) == << 3, 0 >> \o b

\* _send_enc_msg: [3,0] + list(aes.encrypt(bytes(msg)))
EncMessage(k, b) == << 3, 0 >> \o Encrypt(k, b)

\* a slip in report_status: no default for a code that is no AuthReply value
StatusNoDefault(code) ==
    IF code \in AuthReply
    THEN [ kind |-> "AuthReply", value |-> code ]
    ELSE [ kind |-> "NoneType", value |-> << >> ]

\* report_status: the AuthReply member whose value is `code`, else an Exception
\* whose text carries the code
Status(code) ==
    IF code \in AuthReply
    THEN [ kind |-> "AuthReply", value |-> code ]
    ELSE [ kind |-> "UnknownCodeException", value |-> code ]

\* the code each handler verifies
Expected(h) ==
    CASE h = "handle_init_reply"   -> KEY_ACCEPTED
      [] h = "handle_secret_reply" -> RAND_MSG_RECEIVED
      [] h = "handle_done"         -> AUTH_OK

\* the threads calling auth(); each call builds its own Device, Char and Session
Callers == 1..MaxCallers

\* no notification in dispatch
NoNotification == [ value |-> << >>, for |-> 0 ]

(***************************************************************************)
(* The state after import (module globals) and Session.__init__.           *)
(***************************************************************************)
\* a datetime value: the fields of Python's datetime
Datetime(y, mo, d, h, mi, sec, us) ==
    [ year |-> y, month |-> mo, day |-> d, hour |-> h, minute |-> mi,
      second |-> sec, microsecond |-> us ]

\* no codec call in progress
CodecIdle ==
    /\ k_pc = "idle"
    /\ dt_in = Datetime(1, 1, 1, 0, 0, 0, 0)
    /\ dt_order = "little"
    /\ dt_frame = << >>
    /\ dt_out = Datetime(1, 1, 1, 0, 0, 0, 0)
    /\ days_in = << >>
    /\ days_rest = << >>
    /\ mask = 0

\* everything but the key, the reset flag and the codec calls
InitRest ==
    /\ next_handler = None
    /\ notifying = FALSE
    /\ stop_calls = 0
    /\ sent = << >>
    /\ callbacks = << >>
    /\ spc = "start_notify"
    /\ start_exc = NoExc
    /\ hpc = "idle"
    /\ hcode = << >>
    /\ hmsg = << >>
    /\ hhandler = None
    /\ hexc = NoExc
    /\ hsent = 0
    /\ delivered = << >>
    /\ answered = 0
    /\ stray = 0
    /\ cpc = "none"
    /\ loop_initializer = "_loop_init"
    /\ loop_threads = 0
    /\ apc = [ c \in Callers |-> "lookup" ]
    /\ afn = [ c \in Callers |-> None ]
    /\ a_handler = [ c \in Callers |-> None ]
    /\ a_notifying = [ c \in Callers |-> FALSE ]
    /\ a_callbacks = [ c \in Callers |-> << >> ]
    /\ wire = << >>
    /\ wire_answered = 0
    /\ a_cur = NoNotification
    /\ a_todo = { }
    /\ a_handled = { }
    /\ hb_pc = "start_notify"
    /\ hb_subscribed = FALSE
    /\ hb_writes = << >>
    /\ hb_stop_calls = 0
    /\ hb_tasks = << >>
    /\ hb_reported = << >>

Init ==
    /\ key \in Keys
    /\ reset \in BOOLEAN
    /\ InitRest
    /\ CodecIdle

hvars == << hpc, hcode, hmsg, hhandler, hexc, hsent >>
evars == << delivered, answered, stray >>
\* state of a cancelling stop()
cvars == << cpc >>
\* the one-session run of start() and handle()
svars == << next_handler, notifying, stop_calls, sent, callbacks, spc,
            start_exc, hvars, evars >>
\* the process calling auth() from several threads
avars == << loop_initializer, loop_threads, apc, afn, a_handler, a_notifying,
            a_callbacks, wire, wire_answered, a_cur, a_todo, a_handled >>
\* Band2.request_heartbeat
bvars == << hb_pc, hb_subscribed, hb_writes, hb_stop_calls, hb_tasks,
            hb_reported >>
\* the codec functions of band2.py
kvars == << k_pc, dt_in, dt_order, dt_frame, dt_out, days_in, days_rest, mask >>
\* what a step of start() or handle() leaves alone
xvars == << cvars, avars, bvars, kvars >>
\* what a step of auth() leaves alone
auth_rest == << key, reset, svars, cvars, bvars, kvars >>
\* what a step of request_heartbeat() leaves alone
hb_rest == << key, reset, svars, cvars, avars, kvars >>
\* what a codec call leaves alone
codec_rest == << key, reset, svars, cvars, avars, bvars >>

(***************************************************************************)
(* Session.start, on the caller's thread.                                  *)
(***************************************************************************)
\* line 39: self.auth_char.start_notify(self.handle)
StartNotify ==
    /\ spc = "start_notify"
    /\ notifying' = TRUE
    /\ spc' = "send"
    /\ UNCHANGED << key, reset, next_handler, stop_calls, sent, callbacks,
                    start_exc, hvars, evars >>
    /\ UNCHANGED xvars

\* a slip in start(): the reset branch sends the secret request as well
FirstMessageNoKey == SecretRequest

\* the first message: the key message in reset mode, else the secret request
FirstMessage == IF reset THEN KeyMessage(key) ELSE SecretRequest

\* lines 41-42 / 44-45: the first send; WriteValue may raise, and the
\* exception leaves start()
StartSend ==
    /\ spc = "send"
    /\ \E ok \in BOOLEAN :
         IF ok
         THEN /\ sent' = Append(sent, FirstMessage)
              /\ spc' = "assign"
              /\ UNCHANGED start_exc
         ELSE /\ spc' = "raised"
              /\ start_exc' = "DBusException"
              /\ UNCHANGED sent
    /\ UNCHANGED << key, reset, next_handler, notifying, stop_calls, callbacks,
                    hvars, evars >>
    /\ UNCHANGED xvars

\* the handler start() installs
FirstHandler == IF reset THEN "handle_init_reply" ELSE "handle_secret_reply"

\* line 43 / 46: self.next_handler = ...
StartAssign ==
    /\ spc = "assign"
    /\ next_handler' = FirstHandler
    /\ spc' = "done"
    /\ UNCHANGED << key, reset, notifying, stop_calls, sent, callbacks,
                    start_exc, hvars, evars >>
    /\ UNCHANGED xvars

(***************************************************************************)
(* Session.handle, on the main-loop thread.  Char.cb invokes it once per   *)
(* notification value; the thread runs one invocation at a time.           *)
(***************************************************************************)
\* a slip in verify_reply: any known reply code passes
VerifyRaisesLax(h, code) == code \notin AuthReply

\* verify_reply: raises unless the code received is the expected one
VerifyRaises(h, code) == Expected(h) # code

\* lines 55-59 and the handler's verify_reply (68 / 75 / 82): parse the value,
\* fetch next_handler and call it.  Calling None raises TypeError; a handler
\* raises on an unexpected code; handle_done returns True; the other two
\* handlers go on to send.
HandleEntry(m) ==
    /\ notifying
    /\ hpc = "idle"
    /\ delivered' = Append(delivered, m)
    /\ hcode' = ParseCode(m)
    /\ hmsg' = ParseBody(m)
    /\ hhandler' = next_handler
    /\ hsent' = Len(sent)
    /\ IF next_handler = None
       THEN hexc' = "TypeError" /\ hpc' = "stop"
       ELSE IF VerifyRaises(next_handler, ParseCode(m))
            THEN hexc' = "UnexpectedReply" /\ hpc' = "stop"
            ELSE /\ hexc' = NoExc
                 /\ hpc' = IF next_handler = "handle_done" THEN "stop" ELSE "send"
    /\ UNCHANGED << key, reset, next_handler, notifying, stop_calls, sent,
                    callbacks, spc, start_exc >>
    /\ UNCHANGED xvars

\* the device answers a message the session has sent
DeviceReply ==
    /\ answered < Len(sent)
    /\ \E m \in Notifications : HandleEntry(m)
    /\ answered' = answered + 1
    /\ UNCHANGED stray

\* the characteristic notifies a value nobody asked for
StrayNotify ==
    /\ stray < MaxStray
    /\ \E m \in Notifications : HandleEntry(m)
    /\ stray' = stray + 1
    /\ UNCHANGED answered

\* _send_enc_msg raises ValueError before sending when pyaes rejects its input
SendRaisesValueError(h, k, body) ==
    h = "handle_secret_reply" /\ ~CanEncrypt(k, body)

\* a slip in handle_init_reply: the key goes out again after key-accepted
HandlerMessageResendsKey(h, k, body) ==
    IF h = "handle_init_reply" THEN KeyMessage(k) ELSE EncMessage(k, body)

\* the message a handler sends: _req_secret or _send_enc_msg
HandlerMessage(h, k, body) ==
    IF h = "handle_init_reply" THEN SecretRequest ELSE EncMessage(k, body)

\* lines 71 / 78: the handler's send; a ValueError from pyaes or an exception
\* from WriteValue is caught by handle's `except Exception`, which sets done
HandleSend ==
    /\ hpc = "send"
    /\ IF SendRaisesValueError(hhandler, key, hmsg)
       THEN /\ hexc' = "ValueError"
            /\ hpc' = "stop"
            /\ UNCHANGED sent
       ELSE \E ok \in BOOLEAN :
              IF ok
              THEN /\ sent' = Append(sent, HandlerMessage(hhandler, key, hmsg))
                   /\ hpc' = "assign"
                   /\ UNCHANGED hexc
              ELSE /\ hexc' = "DBusException"
                   /\ hpc' = "stop"
                   /\ UNCHANGED sent
    /\ UNCHANGED << key, reset, next_handler, notifying, stop_calls, callbacks,
                    spc, start_exc, hcode, hmsg, hhandler, hsent, evars >>
    /\ UNCHANGED xvars

\* a slip in the handlers: next_handler is left as it was
FollowingHandlerSame(h) == h

\* the handler each handler installs after its send
FollowingHandler(h) ==
    IF h = "handle_init_reply" THEN "handle_secret_reply" ELSE "handle_done"

\* lines 72 / 79: self.next_handler = ...; the handler returns None, so `done`
\* is falsy and handle returns
HandleAssign ==
    /\ hpc = "assign"
    /\ next_handler' = FollowingHandler(hhandler)
    /\ hpc' = "idle"
    /\ UNCHANGED << key, reset, notifying, stop_calls, sent, callbacks, spc,
                    start_exc, hcode, hmsg, hhandler, hexc, hsent, evars >>
    /\ UNCHANGED xvars

\* a slip in stop(): the subscription is kept
HandleStopKeepsNotify ==
    /\ hpc = "stop"
    /\ next_handler' = None
    /\ hpc' = "report"
    /\ UNCHANGED << key, reset, notifying, stop_calls, sent, callbacks, spc,
                    start_exc, hcode, hmsg, hhandler, hexc, hsent, evars >>
    /\ UNCHANGED xvars

\* line 64: self.stop(): stop_notify, then next_handler = None
HandleStop ==
    /\ hpc = "stop"
    /\ notifying' = FALSE
    /\ stop_calls' = stop_calls + 1
    /\ next_handler' = None
    /\ hpc' = "report"
    /\ UNCHANGED << key, reset, sent, callbacks, spc, start_exc,
                    hcode, hmsg, hhandler, hexc, hsent, evars >>
    /\ UNCHANGED xvars

\* line 65: self.report_status(code)
HandleReport ==
    /\ hpc = "report"
    /\ callbacks' = Append(callbacks, Status(hcode))
    /\ hpc' = "idle"
    /\ UNCHANGED << key, reset, next_handler, notifying, stop_calls, sent,
                    spc, start_exc, hcode, hmsg, hhandler, hexc, hsent, evars >>
    /\ UNCHANGED xvars

Next ==
    \/ StartNotify
    \/ StartSend
    \/ StartAssign
    \/ DeviceReply
    \/ StrayNotify
    \/ HandleSend
    \/ HandleAssign
    \/ HandleStop
    \/ HandleReport

Spec == Init /\ [][Next]_vars

(***************************************************************************)
(* The same program under the scheduling the claims about progress assume: *)
(* the caller's thread runs start() to its end, the main-loop thread runs  *)
(* every handle() to its end, and the device answers each message that     *)
(* was sent while the session is still subscribed.                         *)
(***************************************************************************)
StartStep  == StartNotify \/ StartSend \/ StartAssign
HandleStep == HandleSend \/ HandleAssign \/ HandleStop \/ HandleReport

LiveSpec ==
    /\ Init /\ [][Next]_vars
    /\ WF_vars(StartStep)
    /\ WF_vars(HandleStep)
    /\ WF_vars(DeviceReply)

(***************************************************************************)
(* Cancellation: after start() has returned and before any outcome has     *)
(* reached the callback, the caller calls Session.stop() on its own        *)
(* thread, while the main-loop thread may be inside handle().              *)
(***************************************************************************)
\* line 49, on the caller's thread: self.auth_char.stop_notify()
CancelStopNotify ==
    /\ spc = "done"
    /\ cpc = "none"
    /\ callbacks = << >>
    /\ notifying' = FALSE
    /\ stop_calls' = stop_calls + 1
    /\ cpc' = "reset"
    /\ UNCHANGED << key, reset, next_handler, sent, callbacks, spc, start_exc,
                    hvars, evars, avars, bvars, kvars >>

\* line 50, on the caller's thread: self.next_handler = None
CancelReset ==
    /\ cpc = "reset"
    /\ next_handler' = None
    /\ cpc' = "done"
    /\ UNCHANGED << key, reset, notifying, stop_calls, sent, callbacks, spc,
                    start_exc, hvars, evars, avars, bvars, kvars >>

NextCancel ==
    \/ StartNotify
    \/ StartSend
    \/ StartAssign
    \/ DeviceReply
    \/ StrayNotify
    \/ HandleSend
    \/ HandleAssign
    \/ HandleStop
    \/ HandleReport
    \/ CancelStopNotify
    \/ CancelReset

CancelSpec == Init /\ [][NextCancel]_vars

(***************************************************************************)
(* auth(), called from several threads for the same device with the same   *)
(* key.  Every call runs loop_initializer(), builds a Device, a Char and a *)
(* Session of its own and starts it; every Char connects its own receiver  *)
(* to the PropertiesChanged signal of the one characteristic, so the main  *)
(* loop hands each notification to every Char still connected.  The main   *)
(* loop runs one handle() at a time, written here as one step.             *)
(***************************************************************************)
\* line 176: the global loop_initializer is looked up ...
AuthLookup(c) ==
    /\ apc[c] = "lookup"
    /\ afn' = [ afn EXCEPT ![c] = loop_initializer ]
    /\ apc' = [ apc EXCEPT ![c] = "call" ]
    /\ UNCHANGED << loop_initializer, loop_threads, a_handler, a_notifying,
                    a_callbacks, wire, wire_answered, a_cur, a_todo, a_handled,
                    auth_rest >>

\* ... and called: _loop_init starts a thread (lines 164-165), _nop_loop_init
\* does nothing (lines 170-171)
AuthCallInitializer(c) ==
    /\ apc[c] = "call"
    /\ IF afn[c] = "_loop_init"
       THEN /\ loop_threads' = loop_threads + 1
            /\ apc' = [ apc EXCEPT ![c] = "rebind" ]
       ELSE /\ apc' = [ apc EXCEPT ![c] = "start_notify" ]
            /\ UNCHANGED loop_threads
    /\ UNCHANGED << loop_initializer, afn, a_handler, a_notifying, a_callbacks,
                    wire, wire_answered, a_cur, a_todo, a_handled, auth_rest >>

\* lines 167-168: loop_initializer = _nop_loop_init
AuthRebind(c) ==
    /\ apc[c] = "rebind"
    /\ loop_initializer' = "_nop_loop_init"
    /\ apc' = [ apc EXCEPT ![c] = "start_notify" ]
    /\ UNCHANGED << loop_threads, afn, a_handler, a_notifying, a_callbacks,
                    wire, wire_answered, a_cur, a_todo, a_handled, auth_rest >>

\* lines 178-180 and 39: Device, Session, start(): start_notify
AuthStartNotify(c) ==
    /\ apc[c] = "start_notify"
    /\ a_notifying' = [ a_notifying EXCEPT ![c] = TRUE ]
    /\ apc' = [ apc EXCEPT ![c] = "send" ]
    /\ UNCHANGED << loop_initializer, loop_threads, afn, a_handler, a_callbacks,
                    wire, wire_answered, a_cur, a_todo, a_handled, auth_rest >>

\* lines 41-45: the first send of start(); a failed write leaves auth()
AuthStartSend(c) ==
    /\ apc[c] = "send"
    /\ \E ok \in BOOLEAN :
         IF ok
         THEN /\ wire' = Append(wire, [ by |-> c, msg |-> FirstMessage ])
              /\ apc' = [ apc EXCEPT ![c] = "assign" ]
         ELSE /\ apc' = [ apc EXCEPT ![c] = "raised" ]
              /\ UNCHANGED wire
    /\ UNCHANGED << loop_initializer, loop_threads, afn, a_handler, a_notifying,
                    a_callbacks, wire_answered, a_cur, a_todo, a_handled,
                    auth_rest >>

\* lines 43 / 46: next_handler is set and auth() returns
AuthStartAssign(c) ==
    /\ apc[c] = "assign"
    /\ a_handler' = [ a_handler EXCEPT ![c] = FirstHandler ]
    /\ apc' = [ apc EXCEPT ![c] = "done" ]
    /\ UNCHANGED << loop_initializer, loop_threads, afn, a_notifying,
                    a_callbacks, wire, wire_answered, a_cur, a_todo, a_handled,
                    auth_rest >>

\* the device answers the oldest unanswered value on the wire; the signal is
\* queued for every Char connected at that moment
DeviceAnswer ==
    /\ loop_threads >= 1
    /\ wire_answered < Len(wire)
    /\ \A c \in a_todo : ~a_notifying[c]
    /\ \E m \in Notifications :
         a_cur' = [ value |-> m, for |-> wire[wire_answered + 1].by ]
    /\ a_todo' = { c \in Callers : a_notifying[c] }
    /\ wire_answered' = wire_answered + 1
    /\ UNCHANGED << loop_initializer, loop_threads, apc, afn, a_handler,
                    a_notifying, a_callbacks, wire, a_handled, auth_rest >>

\* whether Session.handle ends the run without sending (lines 58-63): the call
\* of next_handler raises, or handle_done returns True
EndsBeforeSend(h, code, k, body) ==
    \/ h = None
    \/ VerifyRaises(h, code)
    \/ h = "handle_done"
    \/ SendRaisesValueError(h, k, body)

\* lines 156-159 and 55-65: Char.cb of session c hands the notification to
\* its Session.handle
AuthHandle(c) ==
    /\ c \in a_todo
    /\ a_notifying[c]
    /\ a_todo' = a_todo \ { c }
    /\ a_handled' = a_handled \cup { << c, a_cur.for >> }
    /\ LET code == ParseCode(a_cur.value)
           body == ParseBody(a_cur.value)
           h    == a_handler[c]
           Stop == /\ a_notifying' = [ a_notifying EXCEPT ![c] = FALSE ]
                   /\ a_handler' = [ a_handler EXCEPT ![c] = None ]
                   /\ a_callbacks' =
                        [ a_callbacks EXCEPT ![c] = Append(@, Status(code)) ]
                   /\ UNCHANGED wire
       IN  IF EndsBeforeSend(h, code, key, body)
           THEN Stop
           ELSE \E ok \in BOOLEAN :
                  IF ok
                  THEN /\ wire' = Append(wire,
                              [ by |-> c, msg |-> HandlerMessage(h, key, body) ])
                       /\ a_handler' =
                            [ a_handler EXCEPT ![c] = FollowingHandler(h) ]
                       /\ UNCHANGED << a_notifying, a_callbacks >>
                  ELSE Stop
    /\ UNCHANGED << loop_initializer, loop_threads, apc, afn, wire_answered,
                    a_cur, auth_rest >>

NextAuth ==
    \/ \E c \in Callers : AuthLookup(c)
    \/ \E c \in Callers : AuthCallInitializer(c)
    \/ \E c \in Callers : AuthRebind(c)
    \/ \E c \in Callers : AuthStartNotify(c)
    \/ \E c \in Callers : AuthStartSend(c)
    \/ \E c \in Callers : AuthStartAssign(c)
    \/ DeviceAnswer
    \/ \E c \in Callers : AuthHandle(c)

AuthSpec == Init /\ [][NextAuth]_vars

(***************************************************************************)
(* Band2.request_heartbeat (miband2/band2.py).  The notification callback  *)
(* cb is a coroutine function: the transport starts one task running       *)
(* cb(char, data) for every notification that arrives while the            *)
(* characteristic is subscribed, and the event loop runs the tasks and     *)
(* request_heartbeat itself one step (up to the next await) at a time.     *)
(***************************************************************************)
\* the two control sequences
HB_CONTROL_0 == << 21, 2, 0 >>
HB_CONTROL_1 == << 21, 2, 1 >>

\* heart-rate notifications: the second byte is the rate
HbValues == { << 0, 60 >>, << 0, 75 >>, << 6, 75 >> }

\* line 61: callback(data[1])
HeartRate(data) == data[2]

\* line 63: await self.device.start_notify(..., cb)
HbStartNotify ==
    /\ hb_pc = "start_notify"
    /\ hb_subscribed' = TRUE
    /\ hb_pc' = "write0"
    /\ UNCHANGED << hb_writes, hb_stop_calls, hb_tasks, hb_reported, hb_rest >>

\* line 64: the first control write; a failed write leaves request_heartbeat
HbWrite0 ==
    /\ hb_pc = "write0"
    /\ \E ok \in BOOLEAN :
         IF ok
         THEN hb_writes' = Append(hb_writes, HB_CONTROL_0) /\ hb_pc' = "write1"
         ELSE hb_pc' = "raised" /\ UNCHANGED hb_writes
    /\ UNCHANGED << hb_subscribed, hb_stop_calls, hb_tasks, hb_reported,
                    hb_rest >>

\* line 65: the second control write
HbWrite1 ==
    /\ hb_pc = "write1"
    /\ \E ok \in BOOLEAN :
         IF ok
         THEN hb_writes' = Append(hb_writes, HB_CONTROL_1) /\ hb_pc' = "done"
         ELSE hb_pc' = "raised" /\ UNCHANGED hb_writes
    /\ UNCHANGED << hb_subscribed, hb_stop_calls, hb_tasks, hb_reported,
                    hb_rest >>

\* a notification arrives while subscribed: a task for cb(char, data) starts
HbNotify ==
    /\ hb_subscribed
    /\ Len(hb_tasks) < MaxHbNotifications
    /\ \E d \in HbValues :
         hb_tasks' = Append(hb_tasks, [ pc |-> "stop_notify", data |-> d ])
    /\ UNCHANGED << hb_pc, hb_subscribed, hb_writes, hb_stop_calls,
                    hb_reported, hb_rest >>

\* line 60: await self.device.stop_notify(...); on a characteristic that is
\* no longer subscribed the transport either accepts the call or raises
HbCbStopNotify(t) ==
    /\ t \in 1..Len(hb_tasks)
    /\ hb_tasks[t].pc = "stop_notify"
    /\ hb_stop_calls' = hb_stop_calls + 1
    /\ \E ok \in (IF hb_subscribed THEN { TRUE } ELSE BOOLEAN) :
         hb_tasks' = [ hb_tasks EXCEPT
                         ![t].pc = IF ok THEN "callback" ELSE "raised" ]
    /\ hb_subscribed' = FALSE
    /\ UNCHANGED << hb_pc, hb_writes, hb_reported, hb_rest >>

\* line 61: callback(data[1])
HbCbCallback(t) ==
    /\ t \in 1..Len(hb_tasks)
    /\ hb_tasks[t].pc = "callback"
    /\ hb_reported' = Append(hb_reported, HeartRate(hb_tasks[t].data))
    /\ hb_tasks' = [ hb_tasks EXCEPT ![t].pc = "done" ]
    /\ UNCHANGED << hb_pc, hb_subscribed, hb_writes, hb_stop_calls, hb_rest >>

NextHb ==
    \/ HbStartNotify
    \/ HbWrite0
    \/ HbWrite1
    \/ HbNotify
    \/ \E t \in 1..MaxHbNotifications : HbCbStopNotify(t)
    \/ \E t \in 1..MaxHbNotifications : HbCbCallback(t)

HbSpec == Init /\ [][NextHb]_vars

(***************************************************************************)
(* The codec functions of miband2/band2.py: _pack_datetime,                *)
(* _unpack_datetime and _days_to_bitmask, applied to inputs drawn in the   *)
(* initial state.                                                          *)
(***************************************************************************)
\* datetime.weekday(): Monday is 0; computed from the proleptic Gregorian ordinal
IsLeap(y) == (y % 4 = 0) /\ ((y % 100 # 0) \/ (y % 400 = 0))
DaysInMonth(y, mo) ==
    IF mo = 2 THEN (IF IsLeap(y) THEN 29 ELSE 28)
    ELSE IF mo \in { 4, 6, 9, 11 } THEN 30 ELSE 31
RECURSIVE DaysBeforeMonth(_, _)
DaysBeforeMonth(y, mo) ==
    IF mo = 1 THEN 0 ELSE DaysBeforeMonth(y, mo - 1) + DaysInMonth(y, mo - 1)
DaysBeforeYear(y) ==
    (y - 1) * 365 + ((y - 1) \div 4) - ((y - 1) \div 100) + ((y - 1) \div 400)
Ordinal(dt) == DaysBeforeYear(dt.year) + DaysBeforeMonth(dt.year, dt.month) + dt.day
Weekday(dt) == (Ordinal(dt) + 6) % 7

\* struct format 'h': a signed 16-bit number in the build's byte order
PackInt16(v, order) ==
    LET u == v % 65536
    IN  IF order = "little" THEN << u % 256, u \div 256 >>
                            ELSE << u \div 256, u % 256 >>
UnpackInt16(b, order) ==
    LET u == IF order = "little" THEN b[1] + 256 * b[2] ELSE 256 * b[1] + b[2]
    IN  IF u >= 32768 THEN u - 65536 ELSE u

\* struct format 'b': a signed byte
PackInt8(v) == v % 256
UnpackInt8(b) == IF b >= 128 THEN b - 256 ELSE b

\* _pack_datetime: struct.pack('hbbbbbbxxx', year, month, day, hour, minute,
\* second, weekday())
PackDatetimeBytes(dt, order) ==
    PackInt16(dt.year, order)
    \o << PackInt8(dt.month), PackInt8(dt.day), PackInt8(dt.hour),
          PackInt8(dt.minute), PackInt8(dt.second), PackInt8(Weekday(dt)) >>
    \o << 0, 0, 0 >>

\* _unpack_datetime: datetime(*struct.unpack('hbbbbbbxxx', raw)): the seven
\* numbers are datetime's positional parameters year, month, day, hour,
\* minute, second, microsecond
UnpackDatetimeBytes(raw, order) ==
    Datetime(UnpackInt16(SubSeq(raw, 1, 2), order),
             UnpackInt8(raw[3]), UnpackInt8(raw[4]), UnpackInt8(raw[5]),
             UnpackInt8(raw[6]), UnpackInt8(raw[7]), UnpackInt8(raw[8]))

\* 1 << d
Shl1(d) == 2 ^ d

\* a | b on non-negative numbers
RECURSIVE BitOr(_, _)
BitOr(a, b) ==
    IF a = 0 THEN b
    ELSE IF b = 0 THEN a
    ELSE (IF a % 2 = 1 \/ b % 2 = 1 THEN 1 ELSE 0)
         + 2 * BitOr(a \div 2, b \div 2)

\* a slip in _days_to_bitmask: mask += 1 << d
MaskWithDayAdded(m, d) == m + Shl1(d)

\* line 124: mask |= 1 << d
MaskWithDay(m, d) == BitOr(m, Shl1(d))

\* the inputs
Datetimes ==
    { Datetime(y, mo, d, h, mi, sec, us) :
        y \in { 1, 2024, 9999 }, mo \in { 1, 2, 12 }, d \in { 1, 28 },
        h \in { 0, 23 }, mi \in { 0, 59 }, sec \in { 0, 59 }, us \in { 0, 3 } }
ByteOrders == { "little", "big" }
Weekdays == 0..6
DayLists == UNION { [ 1..n -> Weekdays ] : n \in 0..MaxDays }

CodecInit ==
    /\ key = KeyA
    /\ reset = FALSE
    /\ InitRest
    /\ dt_frame = << >>
    /\ dt_out = Datetime(1, 1, 1, 0, 0, 0, 0)
    /\ mask = 0
    /\ \/ /\ k_pc = "pack"
          /\ dt_in \in Datetimes
          /\ dt_order \in ByteOrders
          /\ days_in = << >>
          /\ days_rest = << >>
       \/ /\ k_pc = "loop"
          /\ dt_in = Datetime(1, 1, 1, 0, 0, 0, 0)
          /\ dt_order = "little"
          /\ days_in \in DayLists
          /\ days_rest = days_in

\* lines 117-119: _pack_datetime
PackDatetime ==
    /\ k_pc = "pack"
    /\ dt_frame' = PackDatetimeBytes(dt_in, dt_order)
    /\ k_pc' = "unpack"
    /\ UNCHANGED << dt_in, dt_order, dt_out, days_in, days_rest, mask,
                    codec_rest >>

\* lines 113-115: _unpack_datetime
UnpackDatetime ==
    /\ k_pc = "unpack"
    /\ dt_out' = UnpackDatetimeBytes(dt_frame, dt_order)
    /\ k_pc' = "unpacked"
    /\ UNCHANGED << dt_in, dt_order, dt_frame, days_in, days_rest, mask,
                    codec_rest >>

\* lines 123-124: one turn of the loop of _days_to_bitmask
DaysLoop ==
    /\ k_pc = "loop"
    /\ days_rest # << >>
    /\ mask' = MaskWithDay(mask, Head(days_rest))
    /\ days_rest' = Tail(days_rest)
    /\ UNCHANGED << k_pc, dt_in, dt_order, dt_frame, dt_out, days_in,
                    codec_rest >>

\* line 125: return mask
DaysReturn ==
    /\ k_pc = "loop"
    /\ days_rest = << >>
    /\ k_pc' = "returned"
    /\ UNCHANGED << dt_in, dt_order, dt_frame, dt_out, days_in, days_rest,
                    mask, codec_rest >>

NextCodec ==
    \/ PackDatetime
    \/ UnpackDatetime
    \/ DaysLoop
    \/ DaysReturn

CodecSpec == CodecInit /\ [][NextCodec]_vars

(***************************************************************************)
(* Claims.                                                                 *)
(***************************************************************************)
AuthOkStatus == [ kind |-> "AuthReply", value |-> AUTH_OK ]
KnownStatuses == { [ kind |-> "AuthReply", value |-> c ] : c \in AuthReply }

\* the replies handed to handle(), in order, were exactly a challenge with a
\* 16-byte body and then auth-ok
RepliesChallengeThenOk ==
    /\ Len(delivered) = 2
    /\ ParseCode(delivered[1]) = RAND_MSG_RECEIVED
    /\ Len(ParseBody(delivered[1])) = BlockLen
    /\ ParseCode(delivered[2]) = AUTH_OK

\* C1: without reset, when the replies delivered are challenge-issued (16-byte
\* body C) and then auth-ok, the session has sent exactly [2,0] and then
\* [3,0] + Enc(key, C), and once handle() has returned the callback has been
\* invoked once, with AUTH_OK.
C1_NonResetHandshake ==
    (~reset /\ RepliesChallengeThenOk) =>
        /\ sent = << << 2, 0 >>,
                     << 3, 0 >> \o Encrypt(key, ParseBody(delivered[1])) >>
        /\ (hpc = "idle" => callbacks = << AuthOkStatus >>)

C1_Witness ==
    /\ ~reset /\ RepliesChallengeThenOk
    /\ hpc = "idle"
    /\ Len(sent) = 2
    /\ callbacks = << AuthOkStatus >>

\* the replies handed to handle(), in order, were exactly key-accepted, a
\* challenge with a 16-byte body, and auth-ok
RepliesAcceptedChallengeOk ==
    /\ Len(delivered) = 3
    /\ ParseCode(delivered[1]) = KEY_ACCEPTED
    /\ ParseCode(delivered[2]) = RAND_MSG_RECEIVED
    /\ Len(ParseBody(delivered[2])) = BlockLen
    /\ ParseCode(delivered[3]) = AUTH_OK

\* C2: with reset, when the replies delivered are key-accepted, challenge-issued
\* (body C) and auth-ok, the session has sent exactly [1,0] + key, [2,0] and
\* [3,0] + Enc(key, C) in this order, and once handle() has returned the
\* callback has been invoked once, with AUTH_OK.
C2_ResetHandshake ==
    (reset /\ RepliesAcceptedChallengeOk) =>
        /\ sent = << << 1, 0 >> \o key,
                     << 2, 0 >>,
                     << 3, 0 >> \o Encrypt(key, ParseBody(delivered[2])) >>
        /\ (hpc = "idle" => callbacks = << AuthOkStatus >>)

C2_Witness ==
    /\ reset /\ RepliesAcceptedChallengeOk
    /\ hpc = "idle"
    /\ Len(sent) = 3
    /\ callbacks = << AuthOkStatus >>

\* the current (or last) handle() was entered in an awaiting state
EnteredAwaiting == Len(delivered) > 0 /\ hhandler \in Handlers

\* C3: when handle() is entered in an awaiting state with a known code that is
\* not the one the state expects, it goes straight to stop and report: no
\* message is sent, and when it has returned the notifications are stopped and
\* the callback has been invoked once, with the AuthReply member of that code.
C3_UnexpectedKnownCodeEnds ==
    (EnteredAwaiting /\ hcode \in AuthReply /\ hcode # Expected(hhandler)) =>
        /\ hpc \in { "stop", "report", "idle" }
        /\ Len(sent) = hsent
        /\ (hpc = "idle" =>
              /\ ~notifying
              /\ stop_calls = 1
              /\ callbacks = << [ kind |-> "AuthReply", value |-> hcode ] >>)

C3_Witness ==
    /\ EnteredAwaiting
    /\ hhandler = "handle_secret_reply"
    /\ hcode = KEY_MISMATCH
    /\ hpc = "idle"
    /\ ~notifying
    /\ callbacks = << [ kind |-> "AuthReply", value |-> KEY_MISMATCH ] >>

\* C4: when handle() is entered in an awaiting state with a 3-byte code that is
\* none of the five known ones, it goes straight to stop and report, and when
\* it has returned the callback has been invoked once with an unknown-code
\* outcome that carries the code and is no known-code outcome.
C4_UnknownCodeReported ==
    (EnteredAwaiting /\ Len(hcode) = CodeLen /\ hcode \notin AuthReply) =>
        /\ hpc \in { "stop", "report", "idle" }
        /\ Len(sent) = hsent
        /\ (hpc = "idle" =>
              /\ ~notifying
              /\ Len(callbacks) = 1
              /\ callbacks[1].kind = "UnknownCodeException"
              /\ callbacks[1].value = hcode
              /\ callbacks[1] \notin KnownStatuses)

C4_Witness ==
    /\ EnteredAwaiting
    /\ hhandler = "handle_done"
    /\ hcode = UNKNOWN_CODE
    /\ hpc = "idle"
    /\ Len(callbacks) = 1
    /\ callbacks[1].kind = "UnknownCodeException"

\* start() has returned or raised, no handle() is running, and every message
\* the session sent has been answered
Quiescent(positions) ==
    /\ spc \in positions
    /\ hpc = "idle"
    /\ answered >= Len(sent)

StoppedAndReported == stop_calls >= 1 /\ Len(callbacks) >= 1

\* C6: once the session has stopped and reported an outcome, no step sends a
\* message on the auth channel and no step hands a reply to handle().
C6_DoneIsTerminal ==
    [][ StoppedAndReported => (sent' = sent /\ delivered' = delivered) ]_vars

\* C7: when the run has ended (start() raised because its send failed, or an
\* outcome has been reported), stop_notify has been called and the auth
\* channel is not subscribed.
C7_SubscriptionReleased ==
    (spc = "raised" \/ Len(callbacks) >= 1) =>
        (stop_calls >= 1 /\ ~notifying)

\* C8: a failed send produces no outcome.  After a send failed inside a reply
\* handler the callback has not been invoked; after the send in start() failed
\* and no unrequested notification arrived, the callback has not been invoked
\* and nothing has been sent.
C8_SendFailureReportsNothing ==
    /\ (hexc = "DBusException" => callbacks = << >>)
    /\ ((start_exc = "DBusException" /\ stray = 0) =>
            (callbacks = << >> /\ sent = << >>))

\* C9: when handle() was entered in an awaiting state with a value shorter than
\* 3 bytes and has returned, what the callback received (if anything) is neither a known-code
\* outcome nor the unknown-code outcome.
C9_ShortReplyIsMalformed ==
    (EnteredAwaiting /\ Len(delivered[Len(delivered)]) < CodeLen
        /\ hpc = "idle") =>
        \A i \in 1..Len(callbacks) :
            callbacks[i].kind \notin { "AuthReply", "UnknownCodeException" }

\* C10: when the challenge handler received the challenge code with a body that
\* is not 16 bytes, or the key is not 16 bytes, no encrypted reply is sent and,
\* once handle() has returned, what the callback received (if anything) is no
\* known-code outcome.
C10_CryptoInputErrorIdentified ==
    (EnteredAwaiting /\ hhandler = "handle_secret_reply"
        /\ hcode = RAND_MSG_RECEIVED
        /\ (Len(hmsg) # BlockLen \/ Len(key) # BlockLen)) =>
        /\ Len(sent) = hsent
        /\ (hpc = "idle" =>
              \A i \in 1..Len(callbacks) : callbacks[i] \notin KnownStatuses)

\* C11: the session never has more messages on the channel than one more than
\* the notifications handed to handle() (one more than the answers, when no
\* unrequested notification arrived), and no step is sent twice: the messages
\* sent so far differ pairwise in their first byte (1 key, 2 secret request,
\* 3 encrypted reply).
C11_OneOutstandingNoResend ==
    /\ Len(sent) <= Len(delivered) + 1
    /\ (stray = 0 => Len(sent) <= answered + 1)
    /\ \A i, j \in 1..Len(sent) : i # j => sent[i][1] # sent[j][1]

C11_Witness ==
    /\ stray = 0
    /\ Len(sent) = 3
    /\ answered = 2
    /\ hpc = "idle"

\* the bytes of a sent value after its two-byte prefix
Payload(m) == SubSeq(m, 3, Len(m))

\* C17: in a run whose last notification was handled in an awaiting state, the
\* callback has received AUTH_OK only if that state was the one awaiting the
\* auth result and the encrypted reply had been sent.
C17_AuthOkOnlyAfterEncryptedReply ==
    (EnteredAwaiting /\ \E i \in 1..Len(callbacks) : callbacks[i] = AuthOkStatus) =>
        /\ hhandler = "handle_done"
        /\ \E i \in 1..Len(sent) : sent[i][1] = 3

\* C18: when no unrequested notification arrived, every notification handed to
\* handle() found next_handler set: handle() never ran with next_handler None.
C18_HandlerSetWhenReplyArrives ==
    (stray = 0 /\ Len(delivered) >= 1) => hhandler # None

\* C19: a key message, or any message whose payload is the raw key, is sent
\* only as the first message of a run with reset; and no step changes the
\* session's key or reset flag.
C19_KeyOnlyFirstInResetRun ==
    /\ [](\A i \in 1..Len(sent) :
             (sent[i][1] = 1 \/ Payload(sent[i]) = key) => (reset /\ i = 1))
    /\ [][key' = key /\ reset' = reset]_vars

C19_Witness ==
    /\ reset
    /\ Len(sent) = 3
    /\ sent[1] = << 1, 0 >> \o key
    /\ sent[2] = << 2, 0 >>

\* C12: once a cancelling stop() has returned and no handle() is running,
\* stop_notify has been invoked on the auth channel exactly once (in runs in
\* which every notification handled found next_handler set).
C12_CancelStopsNotifyOnce ==
    (cpc = "done" /\ hpc = "idle" /\ (Len(delivered) = 0 \/ hhandler # None)) =>
        stop_calls = 1

\* session c has written a value the device has not answered yet
Outstanding(c) ==
    \E i \in (wire_answered + 1)..Len(wire) : wire[i].by = c

\* C13: at no time are two sessions subscribed to the auth channel with a
\* message outstanding, and no session handles the answer to a message that
\* another session sent.
C13_OneHandshakeAtATime ==
    /\ Cardinality({ c \in Callers : a_notifying[c] /\ Outstanding(c) }) <= 1
    /\ \A p \in a_handled : p[1] = p[2]

\* C20: _loop_init has started at most one main-loop thread.
C20_LoopThreadStartedOnce == loop_threads <= 1

\* C14: the control writes are a prefix of 15 02 00, 15 02 01 and happen only
\* after the subscription was made; the caller's callback has received at most
\* one value and stop_notify has been invoked at most once; and once every
\* task of a run with at least one notification has ended, the callback has
\* received exactly the second byte of the first notification and the
\* notifications are stopped.
C14_OneHeartRateThenStop ==
    /\ hb_writes \in { << >>, << << 21, 2, 0 >> >>,
                       << << 21, 2, 0 >>, << 21, 2, 1 >> >> }
    /\ (hb_pc = "start_notify" => hb_writes = << >>)
    /\ Len(hb_reported) <= 1
    /\ hb_stop_calls <= 1
    /\ (/\ Len(hb_tasks) >= 1
        /\ \A t \in 1..Len(hb_tasks) : hb_tasks[t].pc \in { "done", "raised" })
       => (hb_reported = << hb_tasks[1].data[2] >> /\ ~hb_subscribed)

\* C15: for a datetime of whole seconds with every field in range, the
\* datetime _unpack_datetime returns for the frame _pack_datetime produced
\* equals the datetime that was packed.
C15_DatetimeRoundTrip ==
    (k_pc = "unpacked" /\ dt_in.microsecond = 0) => dt_out = dt_in

\* bit i of n
Bit(n, i) == (n \div (2 ^ i)) % 2

\* the days the loop has visited
DaysVisited ==
    { days_in[i] : i \in 1..(Len(days_in) - Len(days_rest)) }

\* C16: at every turn of the loop, bit i of the mask is set exactly when
\* weekday i is among the days visited (so the mask returned has bit i set
\* exactly when i is in the collection, whatever the order and repetition),
\* and the mask returned is the sum of 2^i over the distinct days.
C16_BitmaskIsUnionOfDays ==
    k_pc \in { "loop", "returned" } =>
        /\ \A i \in 0..7 : (Bit(mask, i) = 1) <=> (i \in DaysVisited)
        /\ (k_pc = "returned" =>
              \A i \in 0..7 :
                 (Bit(mask, i) = 1) <=> (\E j \in 1..Len(days_in) : days_in[j] = i))

C16_Witness ==
    /\ k_pc = "returned"
    /\ Len(days_in) = 3
    /\ days_in[1] = days_in[3]
    /\ days_in[1] # days_in[2]
    /\ mask = 2 ^ days_in[1] + 2 ^ days_in[2]

====
